---- MODULE Spec2Model ----
(***************************************************************************)
(* Model of blackroad-widget-factory (src/src/main_module.py): the widget  *)
(* validator, the serializer, the React prop projector, the layout         *)
(* exporter and the sqlite-backed widget/layout store.                     *)
(*                                                                         *)
(* Three specifications share the module:                                    *)
(*   SpecFn - the pure functions applied to inputs drawn from bounded sets *)
(*   Spec   - the store: in-memory Widget / WidgetLayout objects and the   *)
(*            widgets / layouts tables, driven by every store operation    *)
(*   SpecWidget - the widget operations alone, with the caller editing the *)
(*            fields of the in-memory objects between them                 *)
(***************************************************************************)
EXTENDS Integers, Sequences, FiniteSets, TLC

VARIABLES
    fn,           \* SpecFn: name of the function applied last ("init" before any)
    arg,          \* SpecFn: the input it is applied to
    result,       \* SpecFn: what it returned
    heap_widgets, \* Spec: the in-memory Widget objects, by object slot
    heap_layout,  \* Spec: the in-memory WidgetLayout object
    db_widgets,   \* Spec: table widgets, row id -> row
    db_layouts,   \* Spec: table layouts, row id -> row
    seq_widgets,  \* Spec: AUTOINCREMENT counter of table widgets
    seq_layouts,  \* Spec: AUTOINCREMENT counter of table layouts
    clock,        \* Spec: the time datetime.utcnow() / datetime('now') reads
    last          \* Spec: the operation performed last and its outcome

vars == <<fn, arg, result, heap_widgets, heap_layout, db_widgets, db_layouts,
          seq_widgets, seq_layouts, clock, last>>
fnVars == <<fn, arg, result>>
storeVars == <<heap_widgets, heap_layout, db_widgets, db_layouts,
               seq_widgets, seq_layouts, clock, last>>

(***************************************************************************)
(* Python values.  A config value carries its Python type name in k; the   *)
(* payload is s (text), n (number; tenths for a float) or items.           *)
(***************************************************************************)
PyStr(s) == [k |-> "str", s |-> s, n |-> 0, items |-> <<>>]
PyInt(n) == [k |-> "int", s |-> "", n |-> n, items |-> <<>>]
PyFloat(tenths) == [k |-> "float", s |-> "", n |-> tenths, items |-> <<>>]
PyBool(b) == [k |-> "bool", s |-> "", n |-> IF b THEN 1 ELSE 0, items |-> <<>>]
PyNone == [k |-> "NoneType", s |-> "", n |-> 0, items |-> <<>>]
PyList(items) == [k |-> "list", s |-> "", n |-> 0, items |-> items]
Pair(key, val) == [k |-> "pair", s |-> key, n |-> 0, items |-> <<val>>]
PyDict(pairs) == [k |-> "dict", s |-> "", n |-> 0, items |-> pairs]

\* db_id / layout_id of an object that was never persisted (None)
NoHandle == 0

\* the empty dict {}
EmptyDict == [key \in {} |-> 0]

\* dict.get(key, default)
Get(d, key, default) == IF key \in DOMAIN d THEN d[key] ELSE default

\* Python's isinstance(value, t) for the builtin types: bool is a subclass of int
IsInstance(value, t) == value.k = t \/ (t = "int" /\ value.k = "bool")

\* isinstance(value, expected_type) where expected_type is a tuple of types
IsInstanceAny(value, types) == \E i \in 1..Len(types) : IsInstance(value, types[i])

(***************************************************************************)
(* Static tables                                                           *)
(***************************************************************************)
WIDGET_TYPES ==
    {"button", "input", "text", "image", "chart", "table",
     "card", "modal", "dropdown", "checkbox", "slider",
     "progress", "badge", "avatar", "tooltip", "tabs",
     "accordion", "navbar", "sidebar", "form"}

\* a schema entry (key, expected_type): expected_type is one type or a tuple of types
F(key, t) == [key |-> key, tuple |-> FALSE, types |-> <<t>>]
N(key) == [key |-> key, tuple |-> TRUE, types |-> <<"int", "float">>]

CONFIG_SCHEMAS ==
    [button   |-> <<F("label", "str"), F("variant", "str"), F("disabled", "bool")>>,
     input    |-> <<F("placeholder", "str"), F("type", "str"),
                    F("required", "bool"), F("maxLength", "int")>>,
     text     |-> <<F("content", "str"), F("size", "str"),
                    F("weight", "str"), F("color", "str")>>,
     image    |-> <<F("src", "str"), F("alt", "str"),
                    F("width", "int"), F("height", "int")>>,
     chart    |-> <<F("chartType", "str"), F("data", "list"),
                    F("title", "str"), F("showLegend", "bool")>>,
     table    |-> <<F("columns", "list"), F("rows", "list"),
                    F("sortable", "bool"), F("paginate", "bool")>>,
     card     |-> <<F("title", "str"), F("body", "str"),
                    F("footer", "str"), F("elevation", "int")>>,
     modal    |-> <<F("title", "str"), F("content", "str"), F("closable", "bool")>>,
     dropdown |-> <<F("options", "list"), F("placeholder", "str"),
                    F("multiple", "bool")>>,
     checkbox |-> <<F("label", "str"), F("checked", "bool"),
                    F("indeterminate", "bool")>>,
     slider   |-> <<N("min"), N("max"), N("step"), N("value")>>,
     progress |-> <<N("value"), N("max"), F("label", "str"), F("color", "str")>>,
     badge    |-> <<F("text", "str"), F("color", "str"), F("size", "str")>>,
     avatar   |-> <<F("src", "str"), F("name", "str"), F("size", "str")>>,
     tooltip  |-> <<F("content", "str"), F("placement", "str")>>,
     tabs     |-> <<F("items", "list"), F("activeIndex", "int")>>]

\* _CONFIG_SCHEMAS.get(widget_type, {})
\* a lookup that falls back to a schema instead of the empty one
SchemaFor_ButtonFallback(widget_type) ==
    IF widget_type \in DOMAIN CONFIG_SCHEMAS THEN CONFIG_SCHEMAS[widget_type]
    ELSE CONFIG_SCHEMAS["button"]

SchemaFor(widget_type) ==
    IF widget_type \in DOMAIN CONFIG_SCHEMAS THEN CONFIG_SCHEMAS[widget_type] ELSE <<>>

PROP_TYPES ==
    [str |-> "PropTypes.string", int |-> "PropTypes.number",
     float |-> "PropTypes.number", bool |-> "PropTypes.bool",
     list |-> "PropTypes.array", dict |-> "PropTypes.object"]

(***************************************************************************)
(* Validation                                                              *)
(***************************************************************************)
\* an error string: its kind, the words of its text, and the values it formats
Error(code, words, key, expected, got, nums) ==
    [code |-> code, words |-> words, key |-> key, expected |-> expected,
     got |-> got, nums |-> nums]

\* f"Unknown widget type: {widget.widget_type}"
UnknownTypeError(widget_type) ==
    Error("unknown_type", {"Unknown", "widget", "type:", widget_type}, "", <<>>, "", <<>>)

\* f"'{key}' must be ..., got {type(value).__name__}"
MismatchError(entry, value) ==
    Error("type_mismatch",
          IF entry.tuple THEN {"must", "be", "one", "of", "got"} ELSE {"must", "be", "got"},
          entry.key, entry.types, value.k, <<>>)

\* the loop over schema.items(): keys missing from config are optional
FieldErrors(w) ==
    LET schema == SchemaFor(w.widget_type)
        Bad(i) == /\ schema[i].key \in DOMAIN w.config
                  /\ IF schema[i].tuple
                        THEN ~ IsInstanceAny(w.config[schema[i].key], schema[i].types)
                        ELSE ~ IsInstance(w.config[schema[i].key], schema[i].types[1])
        idx == SelectSeq([i \in 1..Len(schema) |-> i], Bad)
    IN  [j \in 1..Len(idx) |-> MismatchError(schema[idx[j]], w.config[schema[idx[j]].key])]

\* PositionErrors with the overflow test off by one (>= 12 for > 12)
PositionErrors_OverflowAt12(pos) ==
    (IF ~ (0 <= pos.x /\ pos.x <= 12)
       THEN <<Error("x_range", {"Position", "out", "of", "range"}, "", <<>>, "", <<pos.x>>)>>
       ELSE <<>>)
    \o (IF ~ (1 <= pos.width /\ pos.width <= 12)
       THEN <<Error("width_range", {"out", "of", "range"}, "", <<>>, "", <<pos.width>>)>>
       ELSE <<>>)
    \o (IF pos.x + pos.width >= 12
       THEN <<Error("overflow", {"Widget", "overflows", "grid:", "x", "+", "width", ">"},
                    "", <<>>, "", <<pos.x, pos.width>>)>>
       ELSE <<>>)
    \o (IF pos.height < 1
       THEN <<Error("height", {"Height", "must", "be", ">=", "got"}, "", <<>>, "",
                    <<pos.height>>)>>
       ELSE <<>>)

\* PositionErrors with the overflow test folded into the width test
PositionErrors_OverflowElif(pos) ==
    (IF ~ (0 <= pos.x /\ pos.x <= 12)
       THEN <<Error("x_range", {"Position", "out", "of", "range"}, "", <<>>, "", <<pos.x>>)>>
       ELSE <<>>)
    \o (IF ~ (1 <= pos.width /\ pos.width <= 12)
       THEN <<Error("width_range", {"out", "of", "range"}, "", <<>>, "", <<pos.width>>)>>
       ELSE IF pos.x + pos.width > 12
       THEN <<Error("overflow", {"Widget", "overflows", "grid:", "x", "+", "width", ">"},
                    "", <<>>, "", <<pos.x, pos.width>>)>>
       ELSE <<>>)
    \o (IF pos.height < 1
       THEN <<Error("height", {"Height", "must", "be", ">=", "got"}, "", <<>>, "",
                    <<pos.height>>)>>
       ELSE <<>>)

\* the four independent position checks
PositionErrors(pos) ==
    (IF ~ (0 <= pos.x /\ pos.x <= 12)
       THEN <<Error("x_range", {"Position", "out", "of", "range"}, "", <<>>, "", <<pos.x>>)>>
       ELSE <<>>)
    \o (IF ~ (1 <= pos.width /\ pos.width <= 12)
       THEN <<Error("width_range", {"out", "of", "range"}, "", <<>>, "", <<pos.width>>)>>
       ELSE <<>>)
    \o (IF pos.x + pos.width > 12
       THEN <<Error("overflow", {"Widget", "overflows", "grid:", "x", "+", "width", ">"},
                    "", <<>>, "", <<pos.x, pos.width>>)>>
       ELSE <<>>)
    \o (IF pos.height < 1
       THEN <<Error("height", {"Height", "must", "be", ">=", "got"}, "", <<>>, "",
                    <<pos.height>>)>>
       ELSE <<>>)

\* "widget_id is required"
IdErrors(widget_id) ==
    IF widget_id = ""
      THEN <<Error("id_required", {"widget_id", "is", "required"}, "", <<>>, "", <<>>)>>
      ELSE <<>>

\* validate_config without the early return on an unknown type
validate_config_NoReturn(w) ==
    (IF w.widget_type \notin WIDGET_TYPES THEN <<UnknownTypeError(w.widget_type)>> ELSE <<>>)
    \o FieldErrors(w) \o PositionErrors(w.position) \o IdErrors(w.widget_id)

validate_config(w) ==
    IF w.widget_type \notin WIDGET_TYPES
      THEN <<UnknownTypeError(w.widget_type)>>
      ELSE FieldErrors(w) \o PositionErrors(w.position) \o IdErrors(w.widget_id)

(***************************************************************************)
(* Serialization                                                           *)
(***************************************************************************)
\* dataclasses.asdict(position)
asdict(pos) == [x |-> pos.x, y |-> pos.y, width |-> pos.width, height |-> pos.height]

serialize_widget(w) ==
    [widget_id |-> w.widget_id,
     widget_type |-> w.widget_type,
     label |-> w.label,
     config |-> w.config,
     position |-> asdict(w.position),
     visible |-> w.visible,
     created_at |-> w.created_at]

\* A JSON text, as the tree of its tokens: string, number (with or without a
\* fraction part), true, false, null, array, object and object member.
JsonNode(j, s, n, frac, items) == [j |-> j, s |-> s, n |-> n, frac |-> frac, items |-> items]

RECURSIVE ToJson(_)
\* json.dumps of one value
ToJson(v) ==
    CASE v.k = "str" -> JsonNode("string", v.s, 0, FALSE, <<>>)
      [] v.k = "int" -> JsonNode("number", "", v.n, FALSE, <<>>)
      [] v.k = "float" -> JsonNode("number", "", v.n, TRUE, <<>>)
      [] v.k = "bool" -> JsonNode(IF v.n = 1 THEN "true" ELSE "false", "", 0, FALSE, <<>>)
      [] v.k = "NoneType" -> JsonNode("null", "", 0, FALSE, <<>>)
      [] v.k = "list" ->
            JsonNode("array", "", 0, FALSE, [i \in 1..Len(v.items) |-> ToJson(v.items[i])])
      [] v.k = "dict" ->
            JsonNode("object", "", 0, FALSE, [i \in 1..Len(v.items) |-> ToJson(v.items[i])])
      [] v.k = "pair" -> JsonNode("member", v.s, 0, FALSE, <<ToJson(v.items[1])>>)

RECURSIVE FromJson_AllFloat(_)
\* FromJson reading every number as a float
FromJson_AllFloat(node) ==
    CASE node.j = "string" -> PyStr(node.s)
      [] node.j = "number" -> PyFloat(node.n)
      [] node.j = "true" -> PyBool(TRUE)
      [] node.j = "false" -> PyBool(FALSE)
      [] node.j = "null" -> PyNone
      [] node.j = "array" ->
            PyList([i \in 1..Len(node.items) |-> FromJson_AllFloat(node.items[i])])
      [] node.j = "object" ->
            PyDict([i \in 1..Len(node.items) |-> FromJson_AllFloat(node.items[i])])
      [] node.j = "member" -> Pair(node.s, FromJson_AllFloat(node.items[1]))

RECURSIVE FromJson(_)
\* json.loads of one value
FromJson(node) ==
    CASE node.j = "string" -> PyStr(node.s)
      [] node.j = "number" -> IF node.frac THEN PyFloat(node.n) ELSE PyInt(node.n)
      [] node.j = "true" -> PyBool(TRUE)
      [] node.j = "false" -> PyBool(FALSE)
      [] node.j = "null" -> PyNone
      [] node.j = "array" -> PyList([i \in 1..Len(node.items) |-> FromJson(node.items[i])])
      [] node.j = "object" -> PyDict([i \in 1..Len(node.items) |-> FromJson(node.items[i])])
      [] node.j = "member" -> Pair(node.s, FromJson(node.items[1]))

\* json.dumps(serialize_widget(w)): the JSON text of a serialized widget
json_dumps(data) ==
    [json |->
        [key \in DOMAIN data |->
            CASE key = "config" ->
                    [c \in DOMAIN data.config |-> ToJson(data.config[c])]
              [] key = "position" ->
                    [c \in DOMAIN data.position |-> ToJson(PyInt(data.position[c]))]
              [] key = "visible" -> ToJson(PyBool(data.visible))
              [] OTHER -> ToJson(PyStr(data[key]))]]

\* json.loads of the JSON text of a serialized widget
json_loads(text) ==
    [key \in DOMAIN text.json |->
        CASE key = "config" ->
                [c \in DOMAIN text.json.config |-> FromJson(text.json.config[c])]
          [] key = "position" ->
                [c \in DOMAIN text.json.position |-> FromJson(text.json.position[c]).n]
          [] key = "visible" -> FromJson(text.json.visible).n = 1
          [] OTHER -> FromJson(text.json[key]).s]

\* isinstance(data, str)
IsJsonText(data) == "json" \in DOMAIN data

\* uuid: what uuid.uuid4() returns, utcnow: what datetime.utcnow() returns
deserialize_widget(data, uuid, utcnow) ==
    LET d == IF IsJsonText(data) THEN json_loads(data) ELSE data
        pos_data == Get(d, "position", EmptyDict)
    IN  [widget_id |-> Get(d, "widget_id", uuid),
         widget_type |-> d.widget_type,
         label |-> Get(d, "label", ""),
         config |-> Get(d, "config", EmptyDict),
         position |-> [x |-> Get(pos_data, "x", 0),
                       y |-> Get(pos_data, "y", 0),
                       width |-> Get(pos_data, "width", 4),
                       height |-> Get(pos_data, "height", 2)],
         visible |-> Get(d, "visible", TRUE),
         created_at |-> Get(d, "created_at", utcnow),
         db_id |-> NoHandle]

(***************************************************************************)
(* React prop generation                                                   *)
(***************************************************************************)
type_map ==
    [button |-> "Button", input |-> "Input", text |-> "Typography", image |-> "Image",
     chart |-> "Chart", table |-> "DataTable", card |-> "Card", modal |-> "Modal",
     dropdown |-> "Select", checkbox |-> "Checkbox", slider |-> "Slider",
     progress |-> "ProgressBar", badge |-> "Badge", avatar |-> "Avatar",
     tooltip |-> "Tooltip", tabs |-> "Tabs"]

\* Props with the merge order reversed: {"visible": ..., "id": ..., **widget.config}
Props_ConfigLast(w) ==
    LET keys == DOMAIN w.config \cup {"visible", "id"}
                \cup (IF w.label # "" THEN {"aria-label"} ELSE {})
    IN  [key \in keys |->
            CASE key = "aria-label" /\ w.label # "" -> PyStr(w.label)
              [] key \in DOMAIN w.config -> w.config[key]
              [] key = "id" -> PyStr(w.widget_id)
              [] key = "visible" -> PyBool(w.visible)]

\* {**widget.config, "visible": ..., "id": ...}, then props["aria-label"] = label
Props(w) ==
    LET keys == DOMAIN w.config \cup {"visible", "id"}
                \cup (IF w.label # "" THEN {"aria-label"} ELSE {})
    IN  [key \in keys |->
            CASE key = "aria-label" /\ w.label # "" -> PyStr(w.label)
              [] key = "id" -> PyStr(w.widget_id)
              [] key = "visible" -> PyBool(w.visible)
              [] OTHER -> w.config[key]]

\* the PropTypes declarations; a tuple's descriptors are joined with " || "
PropTypesOf(w) ==
    LET schema == SchemaFor(w.widget_type)
        KeyIdx(key) == CHOOSE i \in 1..Len(schema) :
                          /\ schema[i].key = key
                          /\ \A j \in (i + 1)..Len(schema) : schema[j].key # key
        Pt(t) == Get(PROP_TYPES, t, "PropTypes.any")
    IN  [key \in {"id", "visible"} \cup {schema[i].key : i \in 1..Len(schema)} |->
            IF \E i \in 1..Len(schema) : schema[i].key = key
              THEN [i \in 1..Len(schema[KeyIdx(key)].types) |->
                        Pt(schema[KeyIdx(key)].types[i])]
              ELSE IF key = "id" THEN <<"PropTypes.string">> ELSE <<"PropTypes.bool">>]

\* {"visible": True} updated with every config item whose value is not None
DefaultProps(w) ==
    LET kept == {key \in DOMAIN w.config : w.config[key] # PyNone}
    IN  [key \in {"visible"} \cup kept |->
            IF key \in kept THEN w.config[key] ELSE PyBool(TRUE)]

generate_react_props(w) ==
    [componentName |-> Get(type_map, w.widget_type, "Widget"),
     props |-> Props(w),
     propTypes |-> PropTypesOf(w),
     defaultProps |-> DefaultProps(w),
     position |-> asdict(w.position)]

(***************************************************************************)
(* Layout export                                                           *)
(***************************************************************************)
\* the identifiers and layout names the model draws from
Uuid1 == "123e4567-e89b-42d3-a456-426614174000"
Uuid2 == "9b2c1f00-0000-4000-8000-000000000002"
Uuid3 == "c0ffee00-0000-4000-8000-000000000003"

\* widget_id[:8]
Prefix8(widget_id) ==
    CASE widget_id = Uuid1 -> "123e4567"
      [] widget_id = Uuid2 -> "9b2c1f00"
      [] widget_id = Uuid3 -> "c0ffee00"
      [] OTHER -> widget_id

\* name.replace(' ', '-').lower()
CssName(name) ==
    CASE name = "My Dash" -> "my-dash"
      [] OTHER -> name

\* one line of exported text: what it is and the values formatted into it
Line(line, texts, nums) == [line |-> line, texts |-> texts, nums |-> nums]

ExportJson(layout) ==
    [name |-> layout.name,
     columns |-> layout.columns,
     row_height |-> layout.row_height,
     widgets |-> [i \in 1..Len(layout.widgets) |-> serialize_widget(layout.widgets[i])]]

ExportCss(layout) ==
    LET head == <<Line("comment", <<layout.name>>, <<>>),
                  Line("rule", <<".layout-", CssName(layout.name)>>, <<>>),
                  Line("display: grid", <<>>, <<>>),
                  Line("grid-template-columns", <<>>, <<layout.columns>>),
                  Line("row-gap", <<>>, <<layout.row_height>>),
                  Line("}", <<>>, <<>>),
                  Line("", <<>>, <<>>)>>
        Block(w) == <<Line("rule", <<".widget-", Prefix8(w.widget_id)>>, <<>>),
                      Line("grid-column", <<>>, <<w.position.x + 1, w.position.width>>),
                      Line("grid-row", <<>>, <<w.position.y + 1, w.position.height>>),
                      Line("}", <<>>, <<>>),
                      Line("", <<>>, <<>>)>>
    IN  [i \in 1..(7 + 5 * Len(layout.widgets)) |->
            IF i <= 7 THEN head[i]
            ELSE Block(layout.widgets[((i - 8) \div 5) + 1])[((i - 8) % 5) + 1]]

ExportHtml(layout) ==
    LET Row(w) == Line("widget",
                       <<w.widget_type, w.widget_id, generate_react_props(w).componentName>>,
                       <<w.position.x + 1, w.position.width,
                         w.position.y + 1, w.position.height>>)
    IN  <<Line("comment", <<layout.name>>, <<>>),
          Line("grid-layout", <<>>, <<layout.columns>>)>>
        \o [i \in 1..Len(layout.widgets) |-> Row(layout.widgets[i])]
        \o <<Line("</div>", <<>>, <<>>)>>

\* export_layout falling back to json for a format it does not know
export_layout_Fallback(layout, fmt) ==
    CASE fmt = "css" -> [raised |-> "", text |-> <<"css", ExportCss(layout)>>]
      [] fmt = "html" -> [raised |-> "", text |-> <<"html", ExportHtml(layout)>>]
      [] OTHER -> [raised |-> "", text |-> <<"json", ExportJson(layout)>>]

\* returns the text, or raises ValueError
export_layout(layout, fmt) ==
    CASE fmt = "json" -> [raised |-> "", text |-> <<"json", ExportJson(layout)>>]
      [] fmt = "css" -> [raised |-> "", text |-> <<"css", ExportCss(layout)>>]
      [] fmt = "html" -> [raised |-> "", text |-> <<"html", ExportHtml(layout)>>]
      [] OTHER -> [raised |-> "ValueError",
                   text |-> <<"Unsupported export format: ", fmt,
                              ". Use json, css, or html.">>]

(***************************************************************************)
(* The store: tables widgets and layouts behind one sqlite connection      *)
(***************************************************************************)
\* json.dumps(widget.config) / json.loads(row["config"])
dumps_config(config) == [c \in DOMAIN config |-> ToJson(config[c])]
loads_config(text) == [c \in DOMAIN text |-> FromJson(text[c])]

\* the row the INSERT of save_widget writes; created_at is DEFAULT (datetime('now'))
WidgetRow(w, layout_id, dbnow) ==
    [layout_id |-> layout_id,
     widget_id |-> w.widget_id,
     widget_type |-> w.widget_type,
     label |-> w.label,
     config |-> dumps_config(w.config),
     pos_x |-> w.position.x,
     pos_y |-> w.position.y,
     pos_width |-> w.position.width,
     pos_height |-> w.position.height,
     visible |-> IF w.visible THEN 1 ELSE 0,
     created_at |-> dbnow]

\* the columns the UPDATE of save_widget sets
UpdatedRow(row, w) ==
    [row EXCEPT !.widget_type = w.widget_type,
                !.label = w.label,
                !.config = dumps_config(w.config),
                !.pos_x = w.position.x,
                !.pos_y = w.position.y,
                !.pos_width = w.position.width,
                !.pos_height = w.position.height,
                !.visible = IF w.visible THEN 1 ELSE 0]

\* a table with one more row / without some rows
WithRow(table, id, row) ==
    [i \in DOMAIN table \cup {id} |-> IF i = id THEN row ELSE table[i]]
Without(table, ids) == [i \in DOMAIN table \ ids |-> table[i]]

\* save_widget(widget, layout_id, conn) on object slot o.  st holds the
\* objects (heap, layout), the tables (rows, lrows), their AUTOINCREMENT
\* counters (seq, lseq) and the exception raised ("" for none).
\* (conn is always given; without one the function returns at once.)
save_widget(st, o, layout_id, dbnow) ==
    LET w == st.heap[o]
    IN  IF w.db_id = NoHandle
          THEN IF \E i \in DOMAIN st.rows : st.rows[i].widget_id = w.widget_id
                 THEN [st EXCEPT !.raised = "IntegrityError"]
                 ELSE [st EXCEPT !.heap[o].db_id = st.seq + 1,
                                 !.rows = WithRow(st.rows, st.seq + 1,
                                                  WidgetRow(w, layout_id, dbnow)),
                                 !.seq = st.seq + 1]
          ELSE IF w.db_id \in DOMAIN st.rows
                 THEN [st EXCEPT !.rows = [st.rows EXCEPT
                                             ![w.db_id] = UpdatedRow(st.rows[w.db_id], w)]]
                 ELSE st

\* Widget(...) as _row_to_widget builds it: created_at is not passed, so the
\* dataclass default datetime.utcnow() applies
row_to_widget(row, id, utcnow) ==
    [widget_id |-> row.widget_id,
     widget_type |-> row.widget_type,
     label |-> row.label,
     config |-> loads_config(row.config),
     position |-> [x |-> row.pos_x, y |-> row.pos_y,
                   width |-> row.pos_width, height |-> row.pos_height],
     visible |-> row.visible # 0,
     created_at |-> utcnow,
     db_id |-> id]

\* load_widget: None, or the widget of the row with that widget_id
load_widget(widget_id, rows, utcnow) ==
    IF \E i \in DOMAIN rows : rows[i].widget_id = widget_id
      THEN LET id == CHOOSE i \in DOMAIN rows : rows[i].widget_id = widget_id
           IN  [found |-> TRUE, widget |-> row_to_widget(rows[id], id, utcnow)]
      ELSE [found |-> FALSE]

\* delete_widget returning rowcount >= 0
delete_widget_AlwaysTrue(widget_id, rows) ==
    LET hit == {i \in DOMAIN rows : rows[i].widget_id = widget_id}
    IN  [rows |-> Without(rows, hit), ret |-> Cardinality(hit) >= 0]

\* delete_widget: the table after the DELETE, and rowcount > 0
delete_widget(widget_id, rows) ==
    LET hit == {i \in DOMAIN rows : rows[i].widget_id = widget_id}
    IN  [rows |-> Without(rows, hit), ret |-> Cardinality(hit) > 0]

RECURSIVE SaveAll(_, _, _, _)
\* for widget in layout.widgets: save_widget(widget, layout_id=..., conn=conn);
\* an exception ends the loop and leaves what was committed before it
SaveAll(st, list, layout_id, dbnow) ==
    IF list = <<>> THEN st
    ELSE LET st1 == save_widget(st, Head(list), layout_id, dbnow)
         IN  IF st1.raised # "" THEN st1 ELSE SaveAll(st1, Tail(list), layout_id, dbnow)

\* the row the INSERT of save_layout writes
LayoutRow(l, dbnow) ==
    [name |-> l.name, columns |-> l.columns, row_height |-> l.row_height,
     created_at |-> dbnow, updated_at |-> dbnow]

\* save_layout(layout, conn) on the in-memory layout; name is UNIQUE
save_layout(st, dbnow) ==
    LET l == st.layout
        st1 ==
          IF l.layout_id = NoHandle
            THEN IF \E i \in DOMAIN st.lrows : st.lrows[i].name = l.name
                   THEN [st EXCEPT !.raised = "IntegrityError"]
                   ELSE [st EXCEPT !.layout.layout_id = st.lseq + 1,
                                   !.lrows = WithRow(st.lrows, st.lseq + 1,
                                                     LayoutRow(l, dbnow)),
                                   !.lseq = st.lseq + 1]
            ELSE IF l.layout_id \notin DOMAIN st.lrows THEN st
            ELSE IF \E i \in DOMAIN st.lrows \ {l.layout_id} : st.lrows[i].name = l.name
                   THEN [st EXCEPT !.raised = "IntegrityError"]
                   ELSE [st EXCEPT !.lrows[l.layout_id] =
                            [@ EXCEPT !.name = l.name, !.columns = l.columns,
                                      !.row_height = l.row_height,
                                      !.updated_at = dbnow]]
    IN  IF st1.raised # "" THEN st1
        ELSE SaveAll(st1, l.widgets, st1.layout.layout_id, dbnow)

\* the orders ORDER BY pos_y, pos_x allows for a set of widget rows
\* (rows with equal keys may come in either order)
RowOrders(ids, rows) ==
    {s \in [1..Cardinality(ids) -> ids] :
        /\ \A i, j \in DOMAIN s : i # j => s[i] # s[j]
        /\ \A i, j \in DOMAIN s :
              i < j => \/ rows[s[i]].pos_y < rows[s[j]].pos_y
                       \/ /\ rows[s[i]].pos_y = rows[s[j]].pos_y
                          /\ rows[s[i]].pos_x <= rows[s[j]].pos_x}

\* load_layout: the results it may return, [found |-> FALSE] standing for None.
\* created_at is not passed to WidgetLayout, so datetime.utcnow() applies.
load_layout(name, rows, lrows, utcnow) ==
    IF \E i \in DOMAIN lrows : lrows[i].name = name
      THEN LET id == CHOOSE i \in DOMAIN lrows : lrows[i].name = name
               members == {i \in DOMAIN rows : rows[i].layout_id = id}
           IN  {[found |-> TRUE,
                 layout |-> [name |-> lrows[id].name,
                             widgets |-> [k \in DOMAIN s |->
                                             row_to_widget(rows[s[k]], s[k], utcnow)],
                             columns |-> lrows[id].columns,
                             row_height |-> lrows[id].row_height,
                             layout_id |-> id,
                             created_at |-> utcnow]] : s \in RowOrders(members, rows)}
      ELSE {[found |-> FALSE]}

\* the layout names the store model draws from, in ORDER BY name order
NameOrder == <<"alpha", "beta">>
NameRank(name) == CHOOSE i \in 1..Len(NameOrder) : NameOrder[i] = name

\* list_layouts: one dict per layout with its widget count, ordered by name
list_layouts(rows, lrows) ==
    LET order == CHOOSE s \in [1..Cardinality(DOMAIN lrows) -> DOMAIN lrows] :
                    /\ \A i, j \in DOMAIN s : i # j => s[i] # s[j]
                    /\ \A i, j \in DOMAIN s :
                          i < j => NameRank(lrows[s[i]].name) <= NameRank(lrows[s[j]].name)
    IN  [k \in DOMAIN order |->
            [id |-> order[k],
             name |-> lrows[order[k]].name,
             columns |-> lrows[order[k]].columns,
             row_height |-> lrows[order[k]].row_height,
             created_at |-> lrows[order[k]].created_at,
             widget_count |->
                Cardinality({i \in DOMAIN rows : rows[i].layout_id = order[k]})]]

\* add_to_layout whose UPDATE matches the row id column against the widget_id
\* (WHERE id=? for WHERE widget_id=?), so that it changes no row
add_to_layout_WrongKey(layout_name, widget_id, rows, lrows) ==
    IF ~ \E i \in DOMAIN lrows : lrows[i].name = layout_name
      THEN [rows |-> rows, exit |-> 1]
    ELSE IF ~ load_widget(widget_id, rows, 0).found
      THEN [rows |-> rows, exit |-> 1]
    ELSE [rows |-> rows, exit |-> 0]

\* the add-to-layout command of main: exit code 1 when the layout or the
\* widget is not found, else UPDATE widgets SET layout_id=? WHERE widget_id=?
add_to_layout(layout_name, widget_id, rows, lrows) ==
    IF ~ \E i \in DOMAIN lrows : lrows[i].name = layout_name
      THEN [rows |-> rows, exit |-> 1]
    ELSE IF ~ load_widget(widget_id, rows, 0).found
      THEN [rows |-> rows, exit |-> 1]
    ELSE LET id == CHOOSE i \in DOMAIN lrows : lrows[i].name = layout_name
         IN  [rows |-> [i \in DOMAIN rows |->
                          IF rows[i].widget_id = widget_id
                            THEN [rows[i] EXCEPT !.layout_id = id]
                            ELSE rows[i]],
              exit |-> 0]

(***************************************************************************)
(* Inputs of the pure functions                                            *)
(***************************************************************************)
FnTypes ==
    {"button", "slider", "tabs", "accordion", "navbar", "sidebar", "form",
     "nonexistent", "overflows"}

FnConfigs ==
    {EmptyDict,
     [label |-> PyStr("Submit"), variant |-> PyStr("primary"), disabled |-> PyBool(FALSE)],
     [label |-> PyInt(3), disabled |-> PyNone],
     [value |-> PyFloat(15), min |-> PyInt(0), max |-> PyBool(TRUE)],
     [value |-> PyStr("high"), extra |-> PyInt(7)],
     [items |-> PyList(<<PyInt(1), PyStr("a"), PyNone>>), activeIndex |-> PyInt(0)],
     [items |-> PyDict(<<Pair("a", PyList(<<PyFloat(25)>>))>>), activeIndex |-> PyBool(TRUE)],
     ("aria-label" :> PyStr("q")) @@
        [id |-> PyStr("zz"), visible |-> PyStr("no"), label |-> PyStr("Go"), extra |-> PyNone],
     [visible |-> PyNone, id |-> PyInt(5)]}

FnPositions ==
    [x : {-1, 0, 10, 13}, y : {1}, width : {0, 2, 3, 12, 13}, height : {0, 2}]

FnWidgets ==
    [widget_type : FnTypes, config : FnConfigs, position : FnPositions,
     widget_id : {"", Uuid1}, label : {"", "Submit"}, visible : BOOLEAN,
     created_at : {1}, db_id : {NoHandle, 1}]

MaxExportWidgets == 2

ExportWidgets ==
    {w \in FnWidgets :
        /\ w.config \in {EmptyDict, [value |-> PyStr("high"), extra |-> PyInt(7)]}
        /\ w.position = [x |-> 0, y |-> 1, width |-> 3, height |-> 2]
        /\ w.widget_type \in {"button", "accordion"}
        /\ w.widget_id = Uuid1 /\ w.label = "" /\ w.visible /\ w.db_id = NoHandle}

FnLayouts ==
    [name : {"dashboard", "My Dash"},
     widgets : UNION {[1..n -> ExportWidgets] : n \in 0..MaxExportWidgets},
     columns : {12, 6}, row_height : {60}, layout_id : {NoHandle}, created_at : {1}]

FnFormats == {"json", "css", "html", "xml", "JSON", ""}

(***************************************************************************)
(* SpecFn: one function is applied to one input                            *)
(***************************************************************************)
Validate ==
    /\ fn = "init"
    /\ fn' = "validate_config"
    /\ result' = validate_config(arg)
    /\ UNCHANGED <<arg, storeVars>>

RoundTrip ==
    /\ fn = "init"
    /\ fn' = "deserialize_widget"
    /\ \E uuid \in {Uuid2}, utcnow \in {2} :
          result' = deserialize_widget(serialize_widget(arg), uuid, utcnow)
    /\ UNCHANGED <<arg, storeVars>>

RoundTripJson ==
    /\ fn = "init"
    /\ fn' = "deserialize_widget_json"
    /\ \E uuid \in {Uuid2}, utcnow \in {2} :
          result' = deserialize_widget(json_dumps(serialize_widget(arg)), uuid, utcnow)
    /\ UNCHANGED <<arg, storeVars>>

ReactProps ==
    /\ fn = "init"
    /\ fn' = "generate_react_props"
    /\ result' = generate_react_props(arg)
    /\ UNCHANGED <<arg, storeVars>>

\* the layout is drawn once, from the states whose input is an export widget
Export ==
    /\ fn = "init"
    /\ arg \in ExportWidgets
    /\ fn' = "export_layout"
    /\ \E l \in FnLayouts, fmt \in FnFormats :
          /\ arg' = [layout |-> l, fmt |-> fmt]
          /\ result' = export_layout(l, fmt)
    /\ UNCHANGED storeVars

\* SpecFn leaves the store alone: no objects, empty tables
StoreIdle ==
    /\ heap_widgets = <<>>
    /\ heap_layout = <<>>
    /\ db_widgets = <<>>
    /\ db_layouts = <<>>
    /\ seq_widgets = 0
    /\ seq_layouts = 0
    /\ clock = 0
    /\ last = <<>>

FnInit ==
    /\ fn = "init"
    /\ arg \in FnWidgets
    /\ result = <<>>
    /\ StoreIdle

FnNext == Validate \/ RoundTrip \/ RoundTripJson \/ ReactProps \/ Export

SpecFn == FnInit /\ [][FnNext]_vars

(***************************************************************************)
(* Spec: the store driven by its operations                                *)
(***************************************************************************)
NumObjs == 2            \* in-memory Widget objects
MaxWidgetRows == 2      \* rows ever inserted into table widgets
MaxLayoutRows == 2      \* rows ever inserted into table layouts
MaxLayoutWidgets == 2   \* length of the in-memory layout's widgets list

Objs == 1..NumObjs
\* each in-memory object keeps its widget_id (uuid4 at creation, never reassigned)
ObjId(o) == IF o = 1 THEN Uuid1 ELSE IF o = 2 THEN Uuid2 ELSE Uuid3
StoreIds == {ObjId(o) : o \in Objs}
LayoutNames == {NameOrder[i] : i \in 1..Len(NameOrder)}

\* the field values the in-memory widgets are given
DefaultContent ==
    [widget_type |-> "button", label |-> "Submit",
     config |-> [label |-> PyStr("Submit"), disabled |-> PyBool(FALSE)],
     position |-> [x |-> 0, y |-> 0, width |-> 3, height |-> 1],
     visible |-> TRUE]
EditedContent ==
    [widget_type |-> "slider", label |-> "",
     config |-> [value |-> PyFloat(15), marks |-> PyList(<<PyInt(1), PyNone>>)],
     position |-> [x |-> 4, y |-> 0, width |-> 4, height |-> 2],
     visible |-> FALSE]
StoreContents == {DefaultContent, EditedContent}

\* Widget(widget_type=..., ..., widget_id=...): created_at defaults to utcnow()
Widget(c, widget_id, utcnow) ==
    [widget_type |-> c.widget_type, config |-> c.config, position |-> c.position,
     widget_id |-> widget_id, label |-> c.label, visible |-> c.visible,
     created_at |-> utcnow, db_id |-> NoHandle]

\* WidgetLayout(name=...); widgets holds references to in-memory Widget objects
WidgetLayout(name, utcnow) ==
    [name |-> name, widgets |-> <<>>, columns |-> 12, row_height |-> 60,
     layout_id |-> NoHandle, created_at |-> utcnow]

\* what `last` records: the store operation, and whether it succeeded (returned
\* without raising; returned True for delete_widget; exit code 0 for add-to-layout)
Op(op, ok) == [op |-> op, ok |-> ok]

\* between store operations: the caller built or changed objects in memory
Idle == Op("", TRUE)

Store ==
    [heap |-> heap_widgets, layout |-> heap_layout, rows |-> db_widgets,
     seq |-> seq_widgets, lrows |-> db_layouts, lseq |-> seq_layouts, raised |-> ""]

Init ==
    /\ fn = "init" /\ arg = <<>> /\ result = <<>>
    /\ heap_widgets = [o \in Objs |-> Widget(DefaultContent, ObjId(o), 0)]
    /\ heap_layout = WidgetLayout(NameOrder[1], 0)
    /\ db_widgets = <<>>
    /\ db_layouts = <<>>
    /\ seq_widgets = 0
    /\ seq_layouts = 0
    /\ clock = 0
    /\ last = Idle

\* a new Widget object takes slot o
NewWidget(o, c) ==
    /\ heap_widgets' = [heap_widgets EXCEPT ![o] = Widget(c, ObjId(o), clock)]
    /\ last' = Idle
    /\ UNCHANGED <<fnVars, heap_layout, db_widgets, db_layouts, seq_widgets,
                   seq_layouts, clock>>

\* the caller assigns the fields of the object in slot o
EditWidget(o, c) ==
    /\ heap_widgets' = [heap_widgets EXCEPT ![o].widget_type = c.widget_type,
                                            ![o].label = c.label,
                                            ![o].config = c.config,
                                            ![o].position = c.position,
                                            ![o].visible = c.visible]
    /\ last' = Idle
    /\ UNCHANGED <<fnVars, heap_layout, db_widgets, db_layouts, seq_widgets,
                   seq_layouts, clock>>

SaveWidget(o) ==
    LET st == save_widget(Store, o, NoHandle, clock)
    IN  /\ st.seq <= MaxWidgetRows
        /\ heap_widgets' = st.heap
        /\ db_widgets' = st.rows
        /\ seq_widgets' = st.seq
        /\ last' = Op("save_widget", st.raised = "")
        /\ UNCHANGED <<fnVars, heap_layout, db_layouts, seq_layouts, clock>>

DeleteWidget(id) ==
    LET r == delete_widget(id, db_widgets)
    IN  /\ db_widgets' = r.rows
        /\ last' = Op("delete_widget", r.ret)
        /\ UNCHANGED <<fnVars, heap_widgets, heap_layout, db_layouts, seq_widgets,
                       seq_layouts, clock>>

\* a new WidgetLayout object replaces the in-memory layout
NewLayout(name) ==
    /\ heap_layout' = WidgetLayout(name, clock)
    /\ last' = Idle
    /\ UNCHANGED <<fnVars, heap_widgets, db_widgets, db_layouts, seq_widgets,
                   seq_layouts, clock>>

\* layout.widgets.append(widget)
AppendWidget(o) ==
    /\ Len(heap_layout.widgets) < MaxLayoutWidgets
    /\ \A i \in 1..Len(heap_layout.widgets) : heap_layout.widgets[i] # o
    /\ heap_layout' = [heap_layout EXCEPT !.widgets = Append(@, o)]
    /\ last' = Idle
    /\ UNCHANGED <<fnVars, heap_widgets, db_widgets, db_layouts, seq_widgets,
                   seq_layouts, clock>>

SaveLayout ==
    LET st == save_layout(Store, clock)
    IN  /\ st.seq <= MaxWidgetRows
        /\ st.lseq <= MaxLayoutRows
        /\ heap_widgets' = st.heap
        /\ heap_layout' = st.layout
        /\ db_widgets' = st.rows
        /\ db_layouts' = st.lrows
        /\ seq_widgets' = st.seq
        /\ seq_layouts' = st.lseq
        /\ last' = Op("save_layout", st.raised = "")
        /\ UNCHANGED <<fnVars, clock>>

AddToLayout(name, id) ==
    LET r == add_to_layout(name, id, db_widgets, db_layouts)
    IN  /\ db_widgets' = r.rows
        /\ last' = Op("add_to_layout", r.exit = 0)
        /\ UNCHANGED <<fnVars, heap_widgets, heap_layout, db_layouts, seq_widgets,
                       seq_layouts, clock>>

\* Spec: every store operation, on widgets that keep the fields they were built with
Next ==
    \/ \E o \in Objs : NewWidget(o, DefaultContent)
    \/ \E o \in Objs : SaveWidget(o)
    \/ \E id \in StoreIds : DeleteWidget(id)
    \/ \E name \in LayoutNames : NewLayout(name)
    \/ \E o \in Objs : AppendWidget(o)
    \/ SaveLayout
    \/ \E name \in LayoutNames, id \in StoreIds : AddToLayout(name, id)

Spec == Init /\ [][Next]_vars

\* SpecWidget: the widget operations, on widgets whose fields the caller edits
WidgetNext ==
    \/ \E o \in Objs, c \in StoreContents : NewWidget(o, c)
    \/ \E o \in Objs, c \in StoreContents : EditWidget(o, c)
    \/ \E o \in Objs : SaveWidget(o)
    \/ \E id \in StoreIds : DeleteWidget(id)

SpecWidget == Init /\ [][WidgetNext]_vars

\* SpecClock: widgets and layouts are built, saved and loaded while time passes
MaxTime == 2

\* the time datetime.utcnow() and datetime('now') read moves on
Tick ==
    /\ clock < MaxTime
    /\ clock' = clock + 1
    /\ UNCHANGED <<fnVars, heap_widgets, heap_layout, db_widgets, db_layouts,
                   seq_widgets, seq_layouts, last>>

ClockNext ==
    \/ \E o \in Objs : NewWidget(o, DefaultContent)
    \/ \E o \in Objs : SaveWidget(o)
    \/ \E o \in Objs : AppendWidget(o)
    \/ SaveLayout
    \/ Tick

SpecClock == Init /\ [][ClockNext]_vars

(***************************************************************************)
(* Properties of the pure functions (SpecFn)                               *)
(***************************************************************************)
\* the kind of a config value, and the kinds a schema entry expects
KindOfType(t) ==
    CASE t = "str" -> "string" [] t = "int" -> "integer" [] t = "float" -> "real"
      [] t = "bool" -> "boolean" [] t = "list" -> "list" [] t = "dict" -> "object"
      [] OTHER -> "null"
ExpectedKinds(entry) == {KindOfType(entry.types[i]) : i \in 1..Len(entry.types)}

\* every config field that the schema names has a value of the expected kind
Conforms(w) ==
    LET schema == SchemaFor(w.widget_type)
    IN  \A i \in 1..Len(schema) :
            schema[i].key \in DOMAIN w.config
            => KindOfType(w.config[schema[i].key].k) \in ExpectedKinds(schema[i])

InBounds(pos) ==
    /\ 0 <= pos.x /\ pos.x <= 12
    /\ 1 <= pos.width /\ pos.width <= 12
    /\ pos.x + pos.width <= 12
    /\ pos.height >= 1

ValidInput(w) == w.widget_type \in WIDGET_TYPES /\ InBounds(w.position) /\ Conforms(w)

\* C1 as stated: a widget of a valid type, in bounds and conforming to its
\* schema validates to the empty list whatever its other fields (widget_id
\* included) are.
C1_Original ==
    (fn = "validate_config" /\ ValidInput(arg)) => result = <<>>

\* C1 amended: a widget of a valid type, in bounds, conforming to its schema
\* and with a non-empty widget_id validates to the empty list, whatever its
\* label, visible, storage handle and extra config fields are.
C1_ValidWidgetHasNoErrors ==
    (fn = "validate_config" /\ ValidInput(arg) /\ arg.widget_id # "") => result = <<>>

C1_Witness ==
    /\ fn = "validate_config" /\ ValidInput(arg) /\ arg.widget_id # ""
    /\ arg.position.x + arg.position.width = 12
    /\ arg.widget_type = "button" /\ "label" \in DOMAIN arg.config
    /\ "extra" \in DOMAIN arg.config
    /\ arg.db_id # NoHandle /\ ~ arg.visible /\ arg.label # ""
    /\ result = <<>>

\* C2 as stated: deserialize_widget(serialize_widget(w)) equals w on every
\* field, the storage handle included, for transient and persisted w, directly
\* and through a JSON string.
C2_Original ==
    fn \in {"deserialize_widget", "deserialize_widget_json"} => result = arg

\* C2 amended: deserialize_widget(serialize_widget(w)) equals w on widget_id,
\* widget_type, label, config, position, visible and created_at, directly and
\* through a JSON string, and its storage handle is always absent; so it
\* equals w on every field exactly when w is transient.
C2_RoundTripExceptHandle ==
    fn \in {"deserialize_widget", "deserialize_widget_json"}
    => /\ result = [arg EXCEPT !.db_id = NoHandle]
       /\ (result = arg <=> arg.db_id = NoHandle)

C2_Witness ==
    /\ fn = "deserialize_widget_json"
    /\ arg.db_id # NoHandle
    /\ "items" \in DOMAIN arg.config /\ arg.config["items"].k = "list"
    /\ arg.label # "" /\ ~ arg.visible
    /\ result.config = arg.config /\ result.position = arg.position
    /\ result.db_id = NoHandle

\* C5: a widget whose widget_type is outside WIDGET_TYPES validates to exactly
\* one error, the unknown-type error, whatever its config, position and
\* widget_id are.
C5_UnknownTypeOnly ==
    (fn = "validate_config" /\ arg.widget_type \notin WIDGET_TYPES)
    => /\ Len(result) = 1
       /\ result[1].code = "unknown_type"
       /\ arg.widget_type \in result[1].words

C5_Witness ==
    /\ fn = "validate_config" /\ arg.widget_type = "nonexistent"
    /\ ~ InBounds(arg.position) /\ arg.widget_id = ""
    /\ arg.config # EmptyDict
    /\ Len(result) = 1

HasOverflowsError(errors) == \E i \in 1..Len(errors) : "overflows" \in errors[i].words

\* C6 as stated: for a widget of any widget_type, x + width > 12 puts an error
\* containing the word "overflows" in the list.
C6_Original ==
    (fn = "validate_config" /\ arg.position.x + arg.position.width > 12)
    => HasOverflowsError(result)

\* C6 amended: for a widget whose widget_type is in WIDGET_TYPES (with any
\* config), x + width > 12 puts an error containing the word "overflows" in
\* the list.
C6_OverflowReported ==
    (/\ fn = "validate_config"
     /\ arg.widget_type \in WIDGET_TYPES
     /\ arg.position.x + arg.position.width > 12)
    => HasOverflowsError(result)

C6_Witness ==
    /\ fn = "validate_config" /\ arg.widget_type = "button"
    /\ arg.position.x = 0 /\ arg.position.width = 13
    /\ ~ Conforms(arg)
    /\ HasOverflowsError(result) /\ Len(result) >= 3

\* C9: export_layout with fmt outside {json, css, html} raises an error whose
\* message names fmt and returns nothing; with fmt in {json, css, html} it
\* returns the text in that format, also for a layout without widgets.
C9_ExportFormats ==
    fn = "export_layout"
    => IF arg.fmt \in {"json", "css", "html"}
         THEN result.raised = "" /\ result.text[1] = arg.fmt
         ELSE /\ result.raised = "ValueError"
              /\ \E i \in 1..Len(result.text) : result.text[i] = arg.fmt

C9_Witness ==
    /\ fn = "export_layout" /\ arg.fmt = "xml"
    /\ Len(arg.layout.widgets) = 0
    /\ result.raised = "ValueError"

\* C10: props.id is the widget_id and props.visible is visible, also when the
\* config has keys named id or visible; every config key that is not the name
\* of an injected key is in props with its config value.
C10_PropsInjected ==
    fn = "generate_react_props"
    => LET injected == {"id", "visible"}
                        \cup (IF arg.label # "" THEN {"aria-label"} ELSE {})
       IN  /\ result.props["id"] = PyStr(arg.widget_id)
           /\ result.props["visible"] = PyBool(arg.visible)
           /\ \A key \in DOMAIN arg.config \ injected :
                 key \in DOMAIN result.props /\ result.props[key] = arg.config[key]

C10_Witness ==
    /\ fn = "generate_react_props"
    /\ {"id", "visible", "extra"} \subseteq DOMAIN arg.config
    /\ arg.config["id"] # PyStr(arg.widget_id)
    /\ ~ arg.visible
    /\ result.props["id"] = PyStr(arg.widget_id)

(***************************************************************************)
(* Properties of the store (Spec)                                          *)
(***************************************************************************)
Found(results) == {r \in results : r.found}

\* the widget_ids in the widgets of what load_layout(name) may return
LayoutMembers(name, rows, lrows, utcnow) ==
    UNION {{r.layout.widgets[j].widget_id : j \in 1..Len(r.layout.widgets)} :
             r \in Found(load_layout(name, rows, lrows, utcnow))}

\* C3: after save_layout(L, conn) returns, load_layout(L.name, conn) returns a
\* layout whose widgets include every widget of L.widgets, whether the widget
\* was saved before or not.
C3_SavedLayoutLoadsItsWidgets ==
    (last.op = "save_layout" /\ last.ok)
    => /\ \A r \in load_layout(heap_layout.name, db_widgets, db_layouts, clock) : r.found
       /\ \A i \in 1..Len(heap_layout.widgets) :
             heap_widgets[heap_layout.widgets[i]].widget_id
                \in LayoutMembers(heap_layout.name, db_widgets, db_layouts, clock)

\* load_widget(w.widget_id) returns a widget with w's current field values
LoadsAs(w, rows, utcnow) ==
    LET r == load_widget(w.widget_id, rows, utcnow)
    IN  /\ r.found
        /\ r.widget.widget_type = w.widget_type
        /\ r.widget.label = w.label
        /\ r.widget.config = w.config
        /\ r.widget.position = w.position
        /\ r.widget.visible = w.visible

\* C4: save_widget is an upsert: whenever save_widget(w, conn) returns, after
\* any sequence of saves and deletes, w carries a storage handle and
\* load_widget(w.widget_id) returns a widget with w's current values.
C4_SaveWidgetIsUpsert ==
    [][\A o \in Objs :
          (last'.op = "save_widget" /\ last'.ok /\ SaveWidget(o))
          => /\ heap_widgets'[o].db_id # NoHandle
             /\ (heap_widgets[o].db_id # NoHandle
                   => heap_widgets'[o].db_id = heap_widgets[o].db_id)
             /\ LoadsAs(heap_widgets'[o], db_widgets', clock')]_vars

\* C7: delete_widget(id) returns true iff a widget with that widget_id was
\* stored before the call; afterwards load_widget(id) finds nothing, no
\* load_layout result holds the widget, no list_layouts entry counts it, and
\* every other widget row and every layout row is as before.
C7_DeleteWidget ==
    [][\A id \in StoreIds :
          (last'.op = "delete_widget" /\ DeleteWidget(id))
          => /\ last'.ok <=> \E i \in DOMAIN db_widgets : db_widgets[i].widget_id = id
             /\ ~ load_widget(id, db_widgets', clock').found
             /\ \A name \in LayoutNames :
                   id \notin LayoutMembers(name, db_widgets', db_layouts', clock')
             /\ LET entries == list_layouts(db_widgets', db_layouts')
                IN  \A k \in 1..Len(entries) :
                       entries[k].widget_count =
                          Cardinality({i \in DOMAIN db_widgets :
                                          /\ db_widgets[i].layout_id = entries[k].id
                                          /\ db_widgets[i].widget_id # id})
             /\ \A i \in DOMAIN db_widgets :
                   db_widgets[i].widget_id # id
                   => i \in DOMAIN db_widgets' /\ db_widgets'[i] = db_widgets[i]
             /\ db_layouts' = db_layouts]_vars

\* a widget that was saved, sits in a layout and has been deleted, while
\* another widget is still stored in a layout
C7_Witness ==
    /\ last.op = "delete_widget" /\ last.ok
    /\ \E o \in Objs :
          /\ heap_widgets[o].db_id # NoHandle
          /\ heap_widgets[o].db_id \notin DOMAIN db_widgets
          /\ ~ load_widget(heap_widgets[o].widget_id, db_widgets, clock).found
    /\ \E i \in DOMAIN db_widgets : db_widgets[i].layout_id # NoHandle
    /\ Cardinality(DOMAIN db_layouts) = 2

\* the layout names under which load_layout returns the widget
LayoutsOf(widget_id, rows, lrows, utcnow) ==
    {name \in LayoutNames : widget_id \in LayoutMembers(name, rows, lrows, utcnow)}

\* C8: every stored widget is returned by load_layout for at most one layout
\* name; a successful add-to-layout of a stored widget to layout B leaves it
\* in B only, whatever layout it was in, and load_widget finds it before and
\* after.
C8_SingleOwner ==
    /\ [](\A i \in DOMAIN db_widgets :
             Cardinality(LayoutsOf(db_widgets[i].widget_id, db_widgets,
                                   db_layouts, clock)) <= 1)
    /\ [][\A name \in LayoutNames, id \in StoreIds :
             (last'.op = "add_to_layout" /\ last'.ok /\ AddToLayout(name, id))
             => /\ LayoutsOf(id, db_widgets', db_layouts', clock') = {name}
                /\ load_widget(id, db_widgets, clock).found
                /\ load_widget(id, db_widgets', clock').found]_vars

\* a widget saved under the in-memory layout has been added to the other layout
C8_Witness ==
    /\ last.op = "add_to_layout" /\ last.ok
    /\ heap_layout.layout_id # NoHandle
    /\ \E k \in 1..Len(heap_layout.widgets) :
          LET w == heap_widgets[heap_layout.widgets[k]]
          IN  /\ w.db_id \in DOMAIN db_widgets
              /\ db_widgets[w.db_id].layout_id \notin {NoHandle, heap_layout.layout_id}
              /\ Cardinality(LayoutsOf(w.widget_id, db_widgets, db_layouts, clock)) = 1
              /\ heap_layout.name \notin
                    LayoutsOf(w.widget_id, db_widgets, db_layouts, clock)

(***************************************************************************)
(* Field kinds, schema-less types and default props (SpecFn)               *)
(***************************************************************************)
\* the fields present both in the config and in the type's schema whose
\* value is not of the expected kind (or of one of the expected kinds)
MismatchedFields(w) ==
    LET schema == SchemaFor(w.widget_type)
    IN  {schema[i].key : i \in
            {j \in 1..Len(schema) :
                /\ schema[j].key \in DOMAIN w.config
                /\ KindOfType(w.config[schema[j].key].k) \notin ExpectedKinds(schema[j])}}

HasMismatchError(errors, key) ==
    \E i \in 1..Len(errors) : errors[i].code = "type_mismatch" /\ errors[i].key = key

\* C11: for a widget of a valid type, every field present in its config and
\* in the type's schema whose value's kind is not the expected kind (or not
\* one of the expected kinds) gets a mismatch error from validate_config,
\* for each pair of distinct kinds, boolean against integer included.
C11_MismatchReported ==
    (fn = "validate_config" /\ arg.widget_type \in WIDGET_TYPES)
        => \A key \in MismatchedFields(arg) : HasMismatchError(result, key)

\* the enumerated types that have no schema entry
SchemaLessTypes == WIDGET_TYPES \ DOMAIN CONFIG_SCHEMAS

\* C12 as stated: a widget of a schema-less enumerated type validates to the
\* empty list for every config, position and widget_id.
C12_Original ==
    (fn = "validate_config" /\ arg.widget_type \in SchemaLessTypes) => result = <<>>

\* C12 amended: a widget of a schema-less enumerated type gets no field
\* error for any config, and validates to the empty list exactly when its
\* position is in bounds and its widget_id is non-empty.
C12_SchemaLessPassesFieldChecks ==
    (fn = "validate_config" /\ arg.widget_type \in SchemaLessTypes)
        => /\ \A i \in 1..Len(result) : result[i].code # "type_mismatch"
           /\ (result = <<>>) <=> (InBounds(arg.position) /\ arg.widget_id # "")

C12_Witness ==
    /\ fn = "validate_config" /\ arg.widget_type = "navbar"
    /\ "label" \in DOMAIN arg.config /\ arg.config["label"].k = "int"
    /\ InBounds(arg.position) /\ arg.widget_id # ""
    /\ result = <<>>

\* C13: defaultProps always has visible = true and, besides that, exactly one
\* entry per config field whose value is not null, with the field's value;
\* also for a config that has a key named visible.
C13_DefaultPropsVisible ==
    fn = "generate_react_props"
    => LET others == {key \in DOMAIN arg.config \ {"visible"} : arg.config[key] # PyNone}
       IN  /\ "visible" \in DOMAIN result.defaultProps
           /\ result.defaultProps["visible"] = PyBool(TRUE)
           /\ DOMAIN result.defaultProps \ {"visible"} = others
           /\ \A key \in others : result.defaultProps[key] = arg.config[key]

(***************************************************************************)
(* Creation time across persistence (SpecClock)                            *)
(***************************************************************************)
\* the widgets with that widget_id that load_widget or a load_layout may
\* return at time utcnow
LoadedCopies(widget_id, utcnow) ==
    LET one == load_widget(widget_id, db_widgets, utcnow)
    IN  (IF one.found THEN {one.widget} ELSE {})
        \cup UNION {{r.layout.widgets[j] : j \in
                        {k \in 1..Len(r.layout.widgets) :
                            r.layout.widgets[k].widget_id = widget_id}} :
                    r \in UNION {Found(load_layout(name, db_widgets, db_layouts, utcnow)) :
                                    name \in LayoutNames}}

\* C14: a widget saved with save_widget or save_layout is loaded, by
\* load_widget and by load_layout, with the created_at it was created with,
\* however much time passed between creation, save and load.
C14_CreatedAtPreserved ==
    \A o \in Objs :
        (heap_widgets[o].db_id # NoHandle /\ heap_widgets[o].db_id \in DOMAIN db_widgets)
            => \A w \in LoadedCopies(heap_widgets[o].widget_id, clock) :
                   w.created_at = heap_widgets[o].created_at

====
